---- MODULE Spec2Model ----
(***************************************************************************)
(* tables_to_pandas of arynsdk/partition/partition.py: for every table     *)
(* element of a partitioning response, the sparse list of cells (each a    *)
(* span of rows and columns, a content and a header flag) is turned into a *)
(* dense grid, a flattened header row and the data rows below it.          *)
(*                                                                         *)
(* Encoding of Python values:                                              *)
(*   - a list is a sequence; grid[r, c] is grid[<<r, c>>], 0-based as in   *)
(*     the source;                                                         *)
(*   - an Optional value is a sequence of length <= 1: <<>> is Python's    *)
(*     None (e["table"] is None, the DataFrame paired with a non-table     *)
(*     element, columns=None), <<v>> is the value v;                       *)
(*   - the object np.empty leaves in a grid slot is the string None below, *)
(*     which no cell content equals.                                       *)
(***************************************************************************)
EXTENDS Integers, Sequences, FiniteSets, TLC

VARIABLES data, pc, e_idx, header_rows, i, max_header_prefix_row, grid,
          cell_idx, results, raised

vars == <<data, pc, e_idx, header_rows, i, max_header_prefix_row, grid,
          cell_idx, results, raised>>

(***************************************************************************)
(* Bounds of the inputs.                                                   *)
(***************************************************************************)
MaxRows == 3

MaxCols == 2

MaxCells == 3

MaxPrefixRows == 5

Contents == {"Name", "Q1"}

\* the content of a slot of np.empty(..., dtype="object") that was never written
None == "<None>"

Min(a, b) == IF a < b THEN a ELSE b

(***************************************************************************)
(* Python values of the input.                                             *)
(***************************************************************************)
Cell(rows, cols, content, is_header) ==
    [rows |-> rows, cols |-> cols, content |-> content, is_header |-> is_header]

Table(num_rows, num_cols, cells) ==
    [num_rows |-> num_rows, num_cols |-> num_cols, cells |-> cells]

TableElement(t) == [type |-> "table", table |-> <<t>>]

TextElement == [type |-> "Text", table |-> <<>>]

\* an element typed "table" whose "table" entry is None
EmptyTableElement == [type |-> "table", table |-> <<>>]

Document(elements) == [elements |-> elements]

\* the list [start, start+1, ..., start+len-1]
Span(start, len) == [k \in 1..len |-> start + k - 1]

(***************************************************************************)
(* Line 147-149: sorted(set(row_num for cell in cells for row_num in       *)
(* cell["rows"] if cell["is_header"])).                                    *)
(***************************************************************************)
HeaderRowSet(cells) ==
    UNION {{cells[k].rows[j] : j \in 1..Len(cells[k].rows)} :
              k \in {n \in 1..Len(cells) : cells[n].is_header}}

RECURSIVE Sorted(_)
Sorted(S) ==
    IF S = {} THEN <<>>
    ELSE LET m == CHOOSE x \in S : \A y \in S : x <= y
         IN <<m>> \o Sorted(S \ {m})

HeaderRows(cells) == Sorted(HeaderRowSet(cells))

(***************************************************************************)
(* numpy indexing of an axis of length n: an index in [-n, n) is accepted  *)
(* and a negative one counts from the end; any other raises IndexError.    *)
(***************************************************************************)
IndexInBounds(idx, n) == -n <= idx /\ idx < n

NormalizeIndex(idx, n) == IF idx < 0 THEN idx + n ELSE idx

(***************************************************************************)
(* Lines 160-172: the assignments one cell makes, in the order made.       *)
(* Each is <<row, col, value>>.  With R = len(rows) and C = len(cols) both *)
(* branches make R*C assignments: those of row rows[0] first, column by    *)
(* column, then those of rows[1:], row by row.                             *)
(***************************************************************************)
WriteRow(cell, n) == cell.rows[((n - 1) \div Len(cell.cols)) + 1]

WriteCol(cell, n) == cell.cols[((n - 1) % Len(cell.cols)) + 1]

\* faulty variant: the content in every row of the span
HeaderBranchWritesEveryRow(cell) ==
    [n \in 1..(Len(cell.rows) * Len(cell.cols)) |->
        <<WriteRow(cell, n), WriteCol(cell, n), cell.content>>]

\* lines 161-165: content in every column of rows[0], "" in rows[1:]
HeaderBranchWrites(cell) ==
    [n \in 1..(Len(cell.rows) * Len(cell.cols)) |->
        <<WriteRow(cell, n), WriteCol(cell, n),
          IF n <= Len(cell.cols) THEN cell.content ELSE "">>]

\* faulty variant: the content in every column of rows[0], as for a header cell
ElseBranchWritesAcrossTopRow(cell) ==
    [n \in 1..(Len(cell.rows) * Len(cell.cols)) |->
        <<WriteRow(cell, n), WriteCol(cell, n),
          IF n <= Len(cell.cols) THEN cell.content ELSE "">>]

\* faulty variant: rows[1:] are not blanked
ElseBranchWritesTopRowOnly(cell) ==
    [n \in 1..Min(Len(cell.cols), Len(cell.rows) * Len(cell.cols)) |->
        <<WriteRow(cell, n), WriteCol(cell, n),
          IF n = 1 THEN cell.content ELSE "">>]

\* lines 167-172: content at (rows[0], cols[0]), "" in cols[1:] and rows[1:]
ElseBranchWrites(cell) ==
    [n \in 1..(Len(cell.rows) * Len(cell.cols)) |->
        <<WriteRow(cell, n), WriteCol(cell, n),
          IF n = 1 THEN cell.content ELSE "">>]

\* faulty variant: every header-flagged cell, wherever it starts
TakesHeaderBranchAnyRow(cell, mhpr) == cell.is_header /\ cell.rows # <<>>

\* line 160; cell["rows"][0] is read only when is_header holds
TakesHeaderBranch(cell, mhpr) ==
    cell.is_header /\ cell.rows # <<>> /\ cell.rows[1] <= mhpr

\* list index out of range: rows[0] on line 160 or 167, cols[0] on line 167
ListIndexError(cell, mhpr) ==
    \/ cell.rows = <<>>
    \/ ~TakesHeaderBranch(cell, mhpr) /\ cell.cols = <<>>

CellWrites(cell, mhpr) ==
    IF TakesHeaderBranch(cell, mhpr) THEN HeaderBranchWrites(cell)
    ELSE ElseBranchWrites(cell)

Outcome(exc, g) == [exc |-> exc, grid |-> g]

\* grid[row, col] = value for writes[k..], stopping at the first IndexError
RECURSIVE SetItems(_, _, _, _, _)
SetItems(g, writes, k, h, w) ==
    IF k > Len(writes) THEN Outcome("", g)
    ELSE LET row == writes[k][1]
             col == writes[k][2]
         IN IF IndexInBounds(row, h) /\ IndexInBounds(col, w)
            THEN SetItems(
                   [g EXCEPT ![<<NormalizeIndex(row, h), NormalizeIndex(col, w)>>]
                                = writes[k][3]],
                   writes, k + 1, h, w)
            ELSE Outcome("IndexError", g)

\* lines 160-172: one iteration of "for cell in table['cells']"
FillCell(g, cell, mhpr, h, w) ==
    IF ListIndexError(cell, mhpr) THEN Outcome("IndexError", g)
    ELSE SetItems(g, CellWrites(cell, mhpr), 1, h, w)

\* line 158: np.empty([grid_height, grid_width], dtype="object")
EmptyGrid(h, w) == [p \in (0..(h - 1)) \X (0..(w - 1)) |-> None]

(***************************************************************************)
(* Lines 174-182: the header flattener and the DataFrame.                  *)
(***************************************************************************)
\* grid[:stop, :] and grid[start:, :] clip to the grid's height
HeaderHeight(mhpr, h) == Min(mhpr + 1, h)

\* one npcol of header.transpose(): column c of rows 0..max_header_prefix_row
HeaderColumn(g, c, mhpr, h) == [k \in 1..HeaderHeight(mhpr, h) |-> g[<<k - 1, c>>]]

IsNonEmpty(v) == v # ""

\* OrderedDict.fromkeys(values): the keys in insertion order
RECURSIVE FromKeysFrom(_, _, _)
FromKeysFrom(keys, values, k) ==
    IF k > Len(values) THEN keys
    ELSE FromKeysFrom(
           IF \E j \in 1..Len(keys) : keys[j] = values[k] THEN keys
           ELSE Append(keys, values[k]),
           values, k + 1)

\* faulty variant: repeats are kept
FromKeysKeepRepeats(values) == values

FromKeys(values) == FromKeysFrom(<<>>, values, 1)

\* sep.join(strs)
RECURSIVE Join(_, _)
Join(sep, strs) ==
    IF strs = <<>> THEN ""
    ELSE IF Len(strs) = 1 THEN strs[1]
    ELSE strs[1] \o sep \o Join(sep, Tail(strs))

HeaderKeys(g, c, mhpr, h) == FromKeys(SelectSeq(HeaderColumn(g, c, mhpr, h), IsNonEmpty))

\* str.join raises TypeError on an item that is not a str
JoinTypeError(g, mhpr, h, w) ==
    \E c \in 0..(w - 1) : \E k \in 1..HeaderHeight(mhpr, h) : g[<<k - 1, c>>] = None

\* line 175-177
FlattenedHeader(g, mhpr, h, w) ==
    [c \in 1..w |-> Join(" | ", HeaderKeys(g, c - 1, mhpr, h))]

\* faulty variant: grid[max_header_prefix_row :, :]
DataRowsFromPrefixRow(g, mhpr, h, w) ==
    LET start == IF mhpr < 0 THEN h - 1 ELSE Min(mhpr, h)
    IN [k \in 1..(h - start) |-> [c \in 1..w |-> g[<<start + k - 1, c - 1>>]]]

\* grid[max_header_prefix_row + 1 :, :]
DataRows(g, mhpr, h, w) ==
    [k \in 1..(h - HeaderHeight(mhpr, h)) |->
        [c \in 1..w |-> g[<<HeaderHeight(mhpr, h) + k - 1, c - 1>>]]]

\* lines 178-182
DataFrame(g, mhpr, h, w) ==
    [columns |-> IF mhpr >= 0 THEN <<FlattenedHeader(g, mhpr, h, w)>> ELSE <<>>,
     rows |-> DataRows(g, mhpr, h, w)]

(***************************************************************************)
(* Lines 150-154: the header-prefix detector.                              *)
(***************************************************************************)
\* faulty variant: the rows counted from 1
PrefixBreakFromOne(H, n) == H[n + 1] # n + 1

\* line 152, with the loop variable at n
PrefixBreak(H, n) == H[n + 1] # n

\* range(len(header_rows)) has a next value after the loop variable was n
HasNextIndex(H, n) == n + 1 < Len(H)

\* the value of i after the loop, the loop variable being n and not broken
RECURSIVE PrefixScanFrom(_, _)
PrefixScanFrom(H, n) ==
    IF ~HasNextIndex(H, n) THEN n
    ELSE IF PrefixBreak(H, n + 1) THEN n + 1
    ELSE PrefixScanFrom(H, n + 1)

\* lines 150-154
MaxHeaderPrefixRow(H) == PrefixScanFrom(H, -1)

(***************************************************************************)
(* Lines 146-183 for one table, as a function: the exception raised, or    *)
(* the DataFrame.                                                          *)
(***************************************************************************)
RECURSIVE FillCellsFrom(_, _, _, _, _, _)
FillCellsFrom(g, cells, k, mhpr, h, w) ==
    IF k > Len(cells) THEN Outcome("", g)
    ELSE LET o == FillCell(g, cells[k], mhpr, h, w)
         IN IF o.exc # "" THEN o
            ELSE FillCellsFrom(o.grid, cells, k + 1, mhpr, h, w)

\* lines 158-172
AssembleGrid(t, mhpr) ==
    FillCellsFrom(EmptyGrid(t.num_rows, t.num_cols), t.cells, 1, mhpr,
                  t.num_rows, t.num_cols)

Reconstruct(t) ==
    LET mhpr == MaxHeaderPrefixRow(HeaderRows(t.cells))
        o == AssembleGrid(t, mhpr)
    IN IF o.exc # "" THEN [exc |-> o.exc, df |-> <<>>]
       ELSE IF JoinTypeError(o.grid, mhpr, t.num_rows, t.num_cols)
            THEN [exc |-> "TypeError", df |-> <<>>]
       ELSE [exc |-> "",
             df |-> <<DataFrame(o.grid, mhpr, t.num_rows, t.num_cols)>>]

(***************************************************************************)
(* The inputs.                                                             *)
(***************************************************************************)
Positions(h, w) == (0..(h - 1)) \X (0..(w - 1))

SpanPositions(rows, cols) ==
    {<<rows[a], cols[b]>> : a \in 1..Len(rows), b \in 1..Len(cols)}

\* the rectangles of an h x w grid whose top-left corner is p and that avoid covered
RectsAt(p, covered, h, w) ==
    {r \in {[rows |-> Span(p[1], nr), cols |-> Span(p[2], nc)] :
               nr \in 1..(h - p[1]), nc \in 1..(w - p[2])} :
        SpanPositions(r.rows, r.cols) \cap covered = {}}

FirstFree(covered, h, w) ==
    CHOOSE p \in Positions(h, w) \ covered :
        \A q \in Positions(h, w) \ covered :
            p[1] < q[1] \/ (p[1] = q[1] /\ p[2] <= q[2])

\* the tilings of the rest of the grid by at most budget rectangles, each a
\* list of rectangles ordered by top-left corner
RECURSIVE TilingsFrom(_, _, _, _)
TilingsFrom(covered, h, w, budget) ==
    IF covered = Positions(h, w) THEN {<<>>}
    ELSE IF budget = 0 THEN {}
    ELSE LET p == FirstFree(covered, h, w)
         IN UNION {{<<r>> \o t :
                      t \in TilingsFrom(covered \cup SpanPositions(r.rows, r.cols),
                                        h, w, budget - 1)} :
                   r \in RectsAt(p, covered, h, w)}

Attributes == Contents \X BOOLEAN

Dress(rects, attr) ==
    [k \in 1..Len(rects) |->
        Cell(rects[k].rows, rects[k].cols, attr[k][1], attr[k][2])]

\* the cells inside an h x w grid
CellsWithin(h, w) ==
    {Cell(Span(r, nr), Span(c, nc), content, is_header) :
        r \in 0..(h - 1), nr \in 1..h, c \in 0..(w - 1), nc \in 1..w,
        content \in Contents \cup {""}, is_header \in BOOLEAN}

InGrid(cell, h, w) ==
    /\ \A a \in 1..Len(cell.rows) : cell.rows[a] \in 0..(h - 1)
    /\ \A b \in 1..Len(cell.cols) : cell.cols[b] \in 0..(w - 1)

(***************************************************************************)
(* The examples of the documentation: a header cell spanning two rows and  *)
(* two columns over two data cells, and a two-row header with a repeated   *)
(* value, the latter after a text element and an element without table.    *)
(***************************************************************************)
NameTable ==
    Table(3, 2, <<Cell(<<0, 1>>, <<0, 1>>, "Name", TRUE),
                  Cell(<<2>>, <<0>>, "Alice", FALSE),
                  Cell(<<2>>, <<1>>, "30", FALSE)>>)

RegionTable ==
    Table(2, 2, <<Cell(<<0>>, <<0>>, "Region", TRUE),
                  Cell(<<0>>, <<1>>, "2023", TRUE),
                  Cell(<<1>>, <<0>>, "Region", TRUE),
                  Cell(<<1>>, <<1>>, "Q1", TRUE)>>)

ExampleDocuments ==
    {Document(<<TableElement(NameTable)>>),
     Document(<<TextElement, EmptyTableElement, TableElement(RegionTable)>>),
     Document(<<>>)}

(***************************************************************************)
(* The state machine: one action per step of tables_to_pandas.             *)
(*   pc = "for_e"     at line 144, about to take element e_idx             *)
(*   pc = "for_i"     at line 151, the loop variable being i               *)
(*   pc = "assign"    at line 154, the scan over                           *)
(*   pc = "for_cell"  at line 159, about to take cell cell_idx             *)
(*   pc = "returned"  after line 187                                       *)
(*   pc = "raised"    an exception left tables_to_pandas                   *)
(***************************************************************************)
StartOn(d) ==
    /\ data = d
    /\ pc = "for_e"
    /\ e_idx = 1
    /\ header_rows = <<>>
    /\ i = -1
    /\ max_header_prefix_row = -1
    /\ grid = EmptyGrid(0, 0)
    /\ cell_idx = 1
    /\ results = <<>>
    /\ raised = ""

OneTable(t) == Document(<<TableElement(t)>>)

\* well-formed tables: the cells tile the grid
InitTiled ==
    \E h \in 1..MaxRows, w \in 1..MaxCols :
        \E rects \in TilingsFrom({}, h, w, MaxCells) :
            \E attr \in [1..Len(rects) -> Attributes] :
                StartOn(OneTable(Table(h, w, Dress(rects, attr))))

\* one column of single-row cells, any of them header-flagged
InitColumn ==
    \E h \in 1..MaxPrefixRows :
        \E flag \in [1..h -> BOOLEAN] :
            StartOn(OneTable(Table(h, 1,
                [k \in 1..h |-> Cell(<<k - 1>>, <<0>>, "Name", flag[k])])))

\* two cells of the largest grid, in either order, that may overlap or leave gaps
InitPair ==
    \E a \in CellsWithin(MaxRows, MaxCols), b \in CellsWithin(MaxRows, MaxCols) :
        /\ InGrid(a, MaxRows, MaxCols)
        /\ InGrid(b, MaxRows, MaxCols)
        /\ StartOn(OneTable(Table(MaxRows, MaxCols, <<a, b>>)))

InitExample == \E d \in ExampleDocuments : StartOn(d)

\* the responses whose table cells lie inside their grid
Init == InitTiled \/ InitColumn \/ InitPair \/ InitExample

e == data.elements[e_idx]

IsTable(elt) == elt.type = "table" /\ elt.table # <<>>

table == e.table[1]

\* line 145 false, line 185
AppendNonTable ==
    /\ pc = "for_e"
    /\ e_idx <= Len(data.elements)
    /\ ~IsTable(e)
    /\ results' = Append(results, [e |-> e, df |-> <<>>])
    /\ e_idx' = e_idx + 1
    /\ UNCHANGED <<data, pc, header_rows, i, max_header_prefix_row, grid,
                   cell_idx, raised>>

\* lines 145-150
CollectHeaderRows ==
    /\ pc = "for_e"
    /\ e_idx <= Len(data.elements)
    /\ IsTable(e)
    /\ header_rows' = HeaderRows(table.cells)
    /\ i' = -1
    /\ pc' = "for_i"
    /\ UNCHANGED <<data, e_idx, max_header_prefix_row, grid, cell_idx, results,
                   raised>>

\* lines 151-153: one iteration of the scan
PrefixScanStep ==
    /\ pc = "for_i"
    /\ HasNextIndex(header_rows, i)
    /\ i' = i + 1
    /\ pc' = IF PrefixBreak(header_rows, i + 1) THEN "assign" ELSE "for_i"
    /\ UNCHANGED <<data, e_idx, header_rows, max_header_prefix_row, grid,
                   cell_idx, results, raised>>

\* line 151: the range is exhausted
PrefixScanEnd ==
    /\ pc = "for_i"
    /\ ~HasNextIndex(header_rows, i)
    /\ pc' = "assign"
    /\ UNCHANGED <<data, e_idx, header_rows, i, max_header_prefix_row, grid,
                   cell_idx, results, raised>>

\* lines 154-158
AllocateGrid ==
    /\ pc = "assign"
    /\ max_header_prefix_row' = i
    /\ grid' = EmptyGrid(table.num_rows, table.num_cols)
    /\ cell_idx' = 1
    /\ pc' = "for_cell"
    /\ UNCHANGED <<data, e_idx, header_rows, i, results, raised>>

\* lines 159-172: one iteration of the loop over the cells
FillCellStep ==
    /\ pc = "for_cell"
    /\ cell_idx <= Len(table.cells)
    /\ LET o == FillCell(grid, table.cells[cell_idx], max_header_prefix_row,
                         table.num_rows, table.num_cols)
       IN /\ grid' = o.grid
          /\ raised' = o.exc
          /\ pc' = IF o.exc # "" THEN "raised" ELSE "for_cell"
          /\ cell_idx' = IF o.exc # "" THEN cell_idx ELSE cell_idx + 1
    /\ UNCHANGED <<data, e_idx, header_rows, i, max_header_prefix_row, results>>

\* lines 174-183
FlattenHeader ==
    /\ pc = "for_cell"
    /\ cell_idx > Len(table.cells)
    /\ IF JoinTypeError(grid, max_header_prefix_row, table.num_rows, table.num_cols)
       THEN /\ raised' = "TypeError"
            /\ pc' = "raised"
            /\ UNCHANGED <<results, e_idx>>
       ELSE /\ results' = Append(results,
                  [e |-> e,
                   df |-> <<DataFrame(grid, max_header_prefix_row,
                                      table.num_rows, table.num_cols)>>])
            /\ e_idx' = e_idx + 1
            /\ pc' = "for_e"
            /\ UNCHANGED raised
    /\ UNCHANGED <<data, header_rows, i, max_header_prefix_row, grid, cell_idx>>

\* line 187
Return ==
    /\ pc = "for_e"
    /\ e_idx > Len(data.elements)
    /\ pc' = "returned"
    /\ UNCHANGED <<data, e_idx, header_rows, i, max_header_prefix_row, grid,
                   cell_idx, results, raised>>

Next ==
    \/ AppendNonTable
    \/ CollectHeaderRows
    \/ PrefixScanStep
    \/ PrefixScanEnd
    \/ AllocateGrid
    \/ FillCellStep
    \/ FlattenHeader
    \/ Return

Spec == Init /\ [][Next]_vars

\* what the caller of tables_to_pandas receives: the list, or nothing on an exception
Delivered == IF pc = "returned" THEN results ELSE <<>>

(***************************************************************************)
(* Responses the partitioning service is not supposed to send: cells whose *)
(* spans leave the grid or are empty, and documents of several elements.   *)
(***************************************************************************)
\* the lists of at most two consecutive indices around an axis of length n
WideSpans(n) == {Span(start, len) : start \in (-(n + 1))..n, len \in 0..2}

StrayCells(h, w) ==
    {Cell(rows, cols, "Stray", is_header) :
        rows \in WideSpans(h), cols \in WideSpans(w), is_header \in BOOLEAN}

\* one cell covering the whole grid, and a stray cell before or after it
InitStray ==
    \E h \in 1..MaxRows, w \in 1..MaxCols :
        \E content \in Contents, is_header \in BOOLEAN :
            \E stray \in StrayCells(h, w) :
                LET whole == Cell(Span(0, h), Span(0, w), content, is_header)
                IN \/ StartOn(OneTable(Table(h, w, <<whole, stray>>)))
                   \/ StartOn(OneTable(Table(h, w, <<stray, whole>>)))

\* a cell with rows = [5] in a table of three rows
OutOfBoundsTable ==
    Table(3, 1, <<Cell(<<0>>, <<0>>, "Name", TRUE),
                  Cell(<<1>>, <<0>>, "Alice", FALSE),
                  Cell(<<5>>, <<0>>, "30", FALSE)>>)

\* a cell without rows
EmptySpanTable ==
    Table(1, 1, <<Cell(<<>>, <<0>>, "Name", FALSE)>>)

\* a header row that no cell fills completely
GapTable ==
    Table(1, 2, <<Cell(<<0>>, <<0>>, "Name", TRUE)>>)

ElementPool ==
    {TextElement, EmptyTableElement, TableElement(NameTable),
     TableElement(RegionTable), TableElement(OutOfBoundsTable),
     TableElement(EmptySpanTable), TableElement(GapTable)}

MaxElements == 3

InitMixed ==
    \E n \in 0..MaxElements :
        \E elements \in [1..n -> ElementPool] : StartOn(Document(elements))

InitAnySpan == InitStray \/ InitMixed

SpecAnySpan == InitAnySpan /\ [][Next]_vars

(***************************************************************************)
(* Vocabulary of the properties.                                           *)
(***************************************************************************)
\* the table whose DataFrame was appended last, and that DataFrame
Flattened ==
    /\ pc \in {"for_e", "returned"}
    /\ e_idx > 1
    /\ IsTable(data.elements[e_idx - 1])

flattened_table == data.elements[e_idx - 1].table[1]

last_df == results[Len(results)].df[1]

\* the table being reconstructed, at line 159 or when an exception left it
Filling == pc \in {"for_cell", "raised"}

Covers(cell, p) == p \in SpanPositions(cell.rows, cell.cols)

TopLeft(cell) == <<cell.rows[1], cell.cols[1]>>

WellSpanned(cell, h, w) ==
    /\ cell.rows # <<>>
    /\ cell.cols # <<>>
    /\ InGrid(cell, h, w)

NoOverlap(t) ==
    \A a, b \in 1..Len(t.cells) :
        a # b => SpanPositions(t.cells[a].rows, t.cells[a].cols)
                   \cap SpanPositions(t.cells[b].rows, t.cells[b].cols) = {}

\* well-formed: the cells tile the grid without gaps and without overlaps
Tiles(t) ==
    /\ \A k \in 1..Len(t.cells) : WellSpanned(t.cells[k], t.num_rows, t.num_cols)
    /\ NoOverlap(t)
    /\ \A p \in Positions(t.num_rows, t.num_cols) :
           \E k \in 1..Len(t.cells) : Covers(t.cells[k], p)

\* the n-th smallest element of a set of integers
Nth(S, n) == CHOOSE x \in S : Cardinality({y \in S : y < x}) = n - 1

\* strs[1] | strs[2] | ... built from the right end
RECURSIVE BarSeparated(_)
BarSeparated(strs) ==
    IF Len(strs) = 0 THEN ""
    ELSE IF Len(strs) = 1 THEN strs[1]
    ELSE BarSeparated(SubSeq(strs, 1, Len(strs) - 1)) \o " | " \o strs[Len(strs)]

\* rows 0..mhpr of column c: the non-empty values that no row above holds
ExpectedLabel(g, c, mhpr) ==
    LET kept == {r \in 0..mhpr :
                    /\ g[<<r, c>>] # ""
                    /\ \A above \in 0..(r - 1) : g[<<above, c>>] # g[<<r, c>>]}
    IN BarSeparated([n \in 1..Cardinality(kept) |-> g[<<Nth(kept, n), c>>]])

(***************************************************************************)
(* C1: for the sorted, duplicate-free header_rows H the detector yields    *)
(* the smallest index i with H[i] # i when there is one (the stopping      *)
(* index itself), len(H) - 1 when H[i] = i throughout, -1 when H is empty. *)
(***************************************************************************)
C1_Mismatches(H) == {n \in 0..(Len(H) - 1) : H[n + 1] # n}

C1_HeaderPrefixIsStoppingIndex ==
    Filling =>
        /\ \A n \in 1..(Len(header_rows) - 1) : header_rows[n] < header_rows[n + 1]
        /\ max_header_prefix_row =
              IF C1_Mismatches(header_rows) # {}
              THEN Nth(C1_Mismatches(header_rows), 1)
              ELSE Len(header_rows) - 1

\* H = [0, 1, 2, 4] yields 3
C1_Witness ==
    /\ pc = "for_cell"
    /\ header_rows = <<0, 1, 2, 4>>
    /\ max_header_prefix_row = 3

(***************************************************************************)
(* C2: when max_header_prefix_row >= 0 the label of column c is made of    *)
(* the non-empty values of rows 0..max_header_prefix_row of that column,   *)
(* top to bottom, every later repeat of a value dropped, joined by " | ".  *)
(***************************************************************************)
C2_LabelsAreFirstOccurrencesJoined ==
    (Flattened /\ max_header_prefix_row >= 0) =>
        /\ last_df.columns # <<>>
        /\ \A c \in 1..flattened_table.num_cols :
              last_df.columns[1][c] = ExpectedLabel(grid, c - 1, max_header_prefix_row)

\* "Region","Region" gives "Region"; "2023","Q1" gives "2023 | Q1"
C2_Witness ==
    /\ Flattened
    /\ flattened_table = RegionTable
    /\ grid[<<0, 0>>] = "Region" /\ grid[<<1, 0>>] = "Region"
    /\ last_df.columns = <<(<<"Region", "2023 | Q1">>)>>

(***************************************************************************)
(* C3: for a table whose cells tile the grid a DataFrame is produced;      *)
(* column labels are present exactly when max_header_prefix_row >= 0 and   *)
(* then number num_cols; the data rows are grid rows                       *)
(* max_header_prefix_row + 1 .. num_rows - 1, in order and unmodified.     *)
(***************************************************************************)
C3_HeaderAndDataSplitTheGrid ==
    /\ pc = "raised" => ~Tiles(table)
    /\ (Flattened /\ Tiles(flattened_table)) =>
          LET h == flattened_table.num_rows
              w == flattened_table.num_cols
              m == max_header_prefix_row
          IN /\ (last_df.columns # <<>>) <=> (m >= 0)
             /\ m >= 0 => Len(last_df.columns[1]) = w
             /\ Len(last_df.rows) = h - m - 1
             /\ \A r \in (m + 1)..(h - 1) :
                   /\ Len(last_df.rows[r - m]) = w
                   /\ \A c \in 0..(w - 1) : last_df.rows[r - m][c + 1] = grid[<<r, c>>]

\* two header rows "Name","Name" and "","" above the data row "Alice","30"
C3_Witness ==
    /\ Flattened
    /\ flattened_table = NameTable
    /\ max_header_prefix_row = 1
    /\ last_df = [columns |-> <<(<<"Name", "Name">>)>>, rows |-> <<(<<"Alice", "30">>)>>]

\* a tiled table without header: the whole grid is data
C3_WitnessNoHeader ==
    /\ Flattened
    /\ Tiles(flattened_table)
    /\ max_header_prefix_row = -1
    /\ last_df.columns = <<>>
    /\ Len(last_df.rows) = MaxRows

(***************************************************************************)
(* C4: for a table without header-flagged cells whose cells do not         *)
(* overlap, no column labels are produced and the data rows hold each      *)
(* cell's content at its top-left position and "" at every other position *)
(* of its span; every permutation of the cell list gives the same result.  *)
(***************************************************************************)
C4_NoHeader(t) == \A k \in 1..Len(t.cells) : ~t.cells[k].is_header

C4_Applies(t) ==
    /\ C4_NoHeader(t)
    /\ NoOverlap(t)
    /\ \A k \in 1..Len(t.cells) : WellSpanned(t.cells[k], t.num_rows, t.num_cols)

C4_Permutations(n) ==
    {f \in [1..n -> 1..n] : \A a, b \in 1..n : a # b => f[a] # f[b]}

C4_Permuted(t, f) ==
    Table(t.num_rows, t.num_cols, [k \in 1..Len(t.cells) |-> t.cells[f[k]]])

C4_NoHeaderRoundTrip ==
    (Flattened /\ C4_Applies(flattened_table)) =>
        LET t == flattened_table
        IN /\ last_df.columns = <<>>
           /\ Len(last_df.rows) = t.num_rows
           /\ \A k \in 1..Len(t.cells) :
                 \A p \in SpanPositions(t.cells[k].rows, t.cells[k].cols) :
                    last_df.rows[p[1] + 1][p[2] + 1] =
                       IF p = TopLeft(t.cells[k]) THEN t.cells[k].content ELSE ""
           /\ \A f \in C4_Permutations(Len(t.cells)) :
                 Reconstruct(C4_Permuted(t, f)) = [exc |-> "", df |-> <<last_df>>]

\* two cells that span several positions, in the order that is not row-major
C4_Witness ==
    /\ Flattened
    /\ C4_Applies(flattened_table)
    /\ Len(flattened_table.cells) = 2
    /\ flattened_table.cells[1].rows = <<1, 2>>
    /\ flattened_table.cells[1].cols = <<0, 1>>
    /\ flattened_table.cells[1].content = "Q1"
    /\ flattened_table.cells[2].rows = <<0>>
    /\ flattened_table.cells[2].cols = <<0, 1>>
    /\ flattened_table.cells[2].content = "Name"
    /\ last_df.rows = <<(<<"Name", "">>), (<<"Q1", "">>), (<<"", "">>)>>

(***************************************************************************)
(* C5: for a table whose cells tile the grid, once the assembler has       *)
(* scanned all cells every grid position holds a string written by a cell  *)
(* (a content or ""), never the marker np.empty left there.                *)
(***************************************************************************)
C5_Scanned == pc = "for_cell" /\ cell_idx > Len(table.cells)

C5_FullCoverage ==
    /\ pc = "raised" => ~Tiles(table)
    /\ (C5_Scanned /\ Tiles(table)) =>
          \A p \in Positions(table.num_rows, table.num_cols) :
              /\ grid[p] # None
              /\ grid[p] \in {""} \cup {table.cells[k].content : k \in 1..Len(table.cells)}

\* header and data cells spanning several rows and columns
C5_Witness ==
    /\ C5_Scanned
    /\ Tiles(table)
    /\ table.num_rows = MaxRows /\ table.num_cols = MaxCols
    /\ \E a, b \in 1..Len(table.cells) :
          /\ table.cells[a].is_header /\ ~table.cells[b].is_header
          /\ Len(table.cells[a].cols) > 1
          /\ Len(table.cells[b].rows) > 1

(***************************************************************************)
(* C9: a header-flagged cell whose first row is <= max_header_prefix_row   *)
(* is written as its content in every column of cols at row rows[0], as "" *)
(* in every column of cols at the rows of rows[1:], and nowhere else.      *)
(***************************************************************************)
C9_InHeaderPrefix(cell) == cell.is_header /\ cell.rows[1] <= max_header_prefix_row

C9_Step ==
    (/\ pc = "for_cell" /\ pc' = "for_cell" /\ cell_idx' = cell_idx + 1
     /\ C9_InHeaderPrefix(table.cells[cell_idx]))
    => LET cell == table.cells[cell_idx]
       IN \A p \in Positions(table.num_rows, table.num_cols) :
             grid'[p] = IF ~Covers(cell, p) THEN grid[p]
                        ELSE IF p[1] = cell.rows[1] THEN cell.content
                        ELSE ""

C9_HeaderCellFillsItsTopRow == [][C9_Step]_vars

\* "Name" over rows [0,1] and cols [0,1]: row 0 Name,Name; row 1 blank; labels Name,Name
C9_Witness ==
    /\ Flattened
    /\ flattened_table = NameTable
    /\ grid[<<0, 0>>] = "Name" /\ grid[<<0, 1>>] = "Name"
    /\ grid[<<1, 0>>] = "" /\ grid[<<1, 1>>] = ""
    /\ last_df.columns[1] = <<"Name", "Name">>

(***************************************************************************)
(* C10: a cell that is not header-flagged, or whose first row is           *)
(* > max_header_prefix_row, is written as its content at (rows[0],         *)
(* cols[0]) and as "" at every other position of its span; where cells     *)
(* overlap, a position holds what the last cell in scan order that covers  *)
(* it wrote.                                                               *)
(***************************************************************************)
\* the cells scanned so far that cover p
C10_Writers(p) == {k \in 1..(cell_idx - 1) : Covers(table.cells[k], p)}

C10_LastWriter(p) == CHOOSE k \in C10_Writers(p) : \A j \in C10_Writers(p) : j <= k

C10_DataCellFillsItsTopLeft ==
    pc = "for_cell" =>
        \A p \in Positions(table.num_rows, table.num_cols) :
            IF C10_Writers(p) = {} THEN grid[p] = None
            ELSE LET cell == table.cells[C10_LastWriter(p)]
                 IN (~cell.is_header \/ cell.rows[1] > max_header_prefix_row)
                       => grid[p] = IF p = TopLeft(cell) THEN cell.content ELSE ""

\* a header cell below the header prefix, written over part of an earlier cell
C10_Witness ==
    /\ pc = "for_cell" /\ cell_idx = 3
    /\ table.cells[1].content = "Name" /\ table.cells[1].rows = <<0, 1, 2>>
    /\ table.cells[1].cols = <<0, 1>> /\ ~table.cells[1].is_header
    /\ table.cells[2].content = "Q1" /\ table.cells[2].rows = <<1, 2>>
    /\ table.cells[2].cols = <<0, 1>> /\ table.cells[2].is_header
    /\ max_header_prefix_row = 0
    /\ grid[<<0, 0>>] = "Name" /\ grid[<<0, 1>>] = ""
    /\ grid[<<1, 0>>] = "Q1" /\ grid[<<1, 1>>] = ""

(***************************************************************************)
(* The function Reconstruct and the actions compute the same results.      *)
(***************************************************************************)
ReconstructAgrees ==
    /\ pc = "raised" => Reconstruct(table).exc = raised
    /\ pc = "returned" =>
          /\ Len(results) = Len(data.elements)
          /\ \A k \in 1..Len(results) :
                results[k] =
                   [e |-> data.elements[k],
                    df |-> IF IsTable(data.elements[k])
                           THEN Reconstruct(data.elements[k].table[1]).df
                           ELSE <<>>]

\* element k has been through lines 145-185
Reconstructed(k) == k < e_idx \/ (k = e_idx /\ pc = "raised")

(***************************************************************************)
(* C6: a table with a cell whose row index lies outside [0, num_rows) or   *)
(* whose column index lies outside [0, num_cols) ends in an out-of-bounds  *)
(* error and yields no DataFrame, whatever the sign of the index.          *)
(***************************************************************************)
C6_OutOfRange(cell, h, w) ==
    /\ cell.rows # <<>>
    /\ cell.cols # <<>>
    /\ ~InGrid(cell, h, w)

C6_OutOfBoundsIsRejected ==
    \A k \in 1..Len(data.elements) :
        LET elt == data.elements[k]
        IN (/\ IsTable(elt)
            /\ Reconstructed(k)
            /\ \E n \in 1..Len(elt.table[1].cells) :
                  C6_OutOfRange(elt.table[1].cells[n], elt.table[1].num_rows,
                                elt.table[1].num_cols))
           => (k = e_idx /\ pc = "raised" /\ raised = "IndexError")

(***************************************************************************)
(* C7: a table with a cell whose rows or cols is empty fails with an       *)
(* error, header-flagged or not; it never completes with the cell ignored. *)
(***************************************************************************)
C7_EmptySpanIsRejected ==
    \A k \in 1..Len(data.elements) :
        LET elt == data.elements[k]
        IN (/\ IsTable(elt)
            /\ Reconstructed(k)
            /\ \E n \in 1..Len(elt.table[1].cells) :
                  /\ InGrid(elt.table[1].cells[n], elt.table[1].num_rows,
                            elt.table[1].num_cols)
                  /\ \/ elt.table[1].cells[n].rows = <<>>
                     \/ elt.table[1].cells[n].cols = <<>>)
           => (k = e_idx /\ pc = "raised")

(***************************************************************************)
(* C8: when the reconstruction of one table of a document fails, the       *)
(* caller still receives the reconstructions of the document's other       *)
(* tables, those before it and those after it.                             *)
(***************************************************************************)
C8_FailureStaysLocal ==
    pc \in {"returned", "raised"} =>
        \A k \in 1..Len(data.elements) :
            LET elt == data.elements[k]
            IN (IsTable(elt) /\ Reconstruct(elt.table[1]).exc = "")
               => \E j \in 1..Len(Delivered) :
                     Delivered[j] = [e |-> elt, df |-> Reconstruct(elt.table[1]).df]

====
